---- MODULE Spec2Model ----
(***************************************************************************)
(* State-machine model of the abstract Marker entity of the markers        *)
(* plugin (packages/markers-plugin/src/markers/Marker.ts): construction,   *)
(* update (merge, defaults, rotation and anchor normalisation), the list   *)
(* content selection and the tooltip placement / handle lifecycle.         *)
(*                                                                         *)
(* Encoding of JavaScript values                                           *)
(*   - a string field holds a TLA+ string; Undefined stands for a missing  *)
(*     key (or the value undefined);                                       *)
(*   - a scalar that may be a number, a boolean, null or an angle string   *)
(*     is a record [k, n]: k is the JavaScript kind, n the payload;        *)
(*   - angles are counted in ticks of PI/Pi radians, so that a full turn   *)
(*     is 2 * Pi ticks and the string "<d>deg" is d * Pi / 180 ticks;      *)
(*   - a fractional point (anchor) is counted in halves: {x:0.5, y:1} is   *)
(*     [x |-> 1, y |-> 2].                                                 *)
(***************************************************************************)
EXTENDS Integers, Sequences, FiniteSets, TLC

\* ------------------------------------------------------------- bounds

\* Angular resolution: ticks per half turn (PI radians = Pi ticks).
Pi == 2

\* Tooltips the viewer's tooltip service creates before the model stops
\* creating new ones.
MaxCreated == 2

\* ------------------------------------------------------- value encoding

Undefined == "undefined"

UndefV == [k |-> "undefined", n |-> 0]
NullV == [k |-> "null", n |-> 0]
NaNV == [k |-> "NaN", n |-> 0]
Num(n) == [k |-> "number", n |-> n]
Bool(b) == [k |-> "boolean", n |-> IF b THEN 1 ELSE 0]
\* the string "<d>deg"
DegStr(d) == [k |-> "degstring", n |-> d]
\* a non-empty string that is no angle, such as "abc"
BadStr == [k |-> "badstring", n |-> 0]
\* the marker of a thrown PSVError, where a function returns a value
Throw == [k |-> "throw", n |-> 0]

\* JavaScript truthiness of a scalar
Truthy(v) ==
    CASE v.k = "number" -> v.n # 0
      [] v.k = "boolean" -> v.n = 1
      [] v.k \in {"degstring", "badstring", "object"} -> TRUE
      [] OTHER -> FALSE

\* JavaScript truthiness of a string field
TruthyStr(s) == s # Undefined /\ s # ""

\* utils.isNil: null or undefined
isNil(v) == v.k \in {"undefined", "null"}

\* rotation: undefined, a scalar (v) or an object {yaw, pitch, roll}
RotUndef == [k |-> "undefined", v |-> UndefV, yaw |-> UndefV, pitch |-> UndefV, roll |-> UndefV]
RotScalar(v) == [k |-> "scalar", v |-> v, yaw |-> UndefV, pitch |-> UndefV, roll |-> UndefV]
RotObject(y, p, r) == [k |-> "object", v |-> UndefV, yaw |-> y, pitch |-> p, roll |-> r]

\* tooltip: undefined, a bare string (s) or an object {content, trigger,
\* style}
TipUndef ==
    [k |-> "undefined", s |-> Undefined, content |-> Undefined, trigger |-> Undefined,
     style |-> Undefined]
TipString(s) ==
    [k |-> "string", s |-> s, content |-> Undefined, trigger |-> Undefined,
     style |-> Undefined]
TipObject(c, t) ==
    [k |-> "object", s |-> Undefined, content |-> c, trigger |-> t, style |-> Undefined]
\* a tooltip object that carries a style: y is its style.pointerEvents
TipStyled(c, t, y) == [TipObject(c, t) EXCEPT !.style = y]

\* points
NullPoint == [k |-> "null", x |-> 0, y |-> 0]
Point(x, y) == [k |-> "point", x |-> x, y |-> y]

\* sizes and boxes
NullSize == [k |-> "null", width |-> 0, height |-> 0]
Size(w, h) == [k |-> "size", width |-> w, height |-> h]

\* the hoverScale object {amount}
HoverScale(amount) == [k |-> "object", n |-> amount]

\* the marker types the model distinguishes (a subset of the MarkerType enum)
MarkerTypes == {"image", "html", "polygon", "imageLayer", "elementLayer"}

\* a configuration with every key missing
NoConfig ==
    [id |-> Undefined, image |-> Undefined, html |-> Undefined, polygon |-> Undefined,
     imageLayer |-> Undefined, elementLayer |-> Undefined,
     tooltip |-> TipUndef, visible |-> UndefV, zIndex |-> UndefV, opacity |-> UndefV,
     rotation |-> RotUndef, anchor |-> Undefined, listContent |-> Undefined,
     hoverScale |-> UndefV]

\* ------------------------------------------- helpers of the core package

\* what a function returns in place of a type when it throws
ThrowType == "<throw>"

\* getMarkerType(config, allowNone): the one type whose defining field is
\* set; undefined for none when allowNone; throws for none otherwise, and
\* for several
getMarkerType(c, allowNone) ==
    LET found == {t \in MarkerTypes : TruthyStr(c[t])}
    IN  IF found = {}
        THEN IF allowNone THEN Undefined ELSE ThrowType
        ELSE IF Cardinality(found) > 1
             THEN ThrowType
             ELSE CHOOSE t \in found : TRUE

\* deepmerge of a string-valued key: a key of src replaces the target's
mergeStr(t, s) == IF s # Undefined THEN s ELSE t

\* deepmerge of a scalar-valued key
mergeVal(t, s) == IF s.k # "undefined" THEN s ELSE t

\* deepmerge of the tooltip key: a string replaces, an object merges field
\* by field into an object and replaces anything else
mergeTooltip(t, s) ==
    CASE s.k = "undefined" -> t
      [] s.k = "string" -> s
      [] OTHER ->
            IF t.k = "object"
            THEN TipStyled(mergeStr(t.content, s.content), mergeStr(t.trigger, s.trigger),
                           mergeStr(t.style, s.style))
            ELSE s

\* deepmerge of the rotation key: a scalar replaces, an object merges field
\* by field into an object and replaces anything else
mergeRotation(t, s) ==
    CASE s.k = "undefined" -> t
      [] s.k = "scalar" -> s
      [] OTHER ->
            IF t.k = "object"
            THEN RotObject(mergeVal(t.yaw, s.yaw), mergeVal(t.pitch, s.pitch),
                           mergeVal(t.roll, s.roll))
            ELSE s

\* utils.deepmerge(this.config, config)
deepmerge(t, s) ==
    [id |-> mergeStr(t.id, s.id),
     image |-> mergeStr(t.image, s.image),
     html |-> mergeStr(t.html, s.html),
     polygon |-> mergeStr(t.polygon, s.polygon),
     imageLayer |-> mergeStr(t.imageLayer, s.imageLayer),
     elementLayer |-> mergeStr(t.elementLayer, s.elementLayer),
     tooltip |-> mergeTooltip(t.tooltip, s.tooltip),
     visible |-> mergeVal(t.visible, s.visible),
     zIndex |-> mergeVal(t.zIndex, s.zIndex),
     opacity |-> mergeVal(t.opacity, s.opacity),
     rotation |-> mergeRotation(t.rotation, s.rotation),
     anchor |-> mergeStr(t.anchor, s.anchor),
     listContent |-> mergeStr(t.listContent, s.listContent),
     hoverScale |-> mergeVal(t.hoverScale, s.hoverScale)]

\* the % of JavaScript: the remainder has the sign of the dividend
JsRem(a, b) == IF a >= 0 THEN a % b ELSE -((-a) % b)

clamp(x, lo, hi) == IF x < lo THEN lo ELSE IF x > hi THEN hi ELSE x

\* utils.parseAngle(angle, true, false): a number, or a "<d>deg" string
\* converted to radians, wrapped to [-PI, PI]; throws for anything else
parseAngle(v) ==
    IF v.k \notin {"number", "degstring"}
    THEN Throw
    ELSE LET parsed == IF v.k = "number" THEN v.n ELSE (v.n * Pi) \div 180
             rem == JsRem(parsed + Pi, 2 * Pi)
             wrapped == IF rem < 0 THEN rem + 2 * Pi ELSE rem
         IN  Num(clamp(wrapped - Pi, -Pi, Pi))

\* utils.parsePoint(anchor), in halves: the position keywords the model uses
parsePoint(a) ==
    CASE a = "bottom center" -> Point(1, 2)
      [] a = "top left" -> Point(0, 0)
      [] OTHER -> Point(1, 1)

\* ------------------------------------------------------------ the marker

VARIABLES
    phase,          \* "new" before construction, "live", "destroyed"
    type,           \* Marker.type
    config,         \* Marker.config, the parsed configuration
    state,          \* Marker.state: anchor, visible, staticTooltip, position2D, size
    tooltip,        \* Marker.tooltip: 0 for none, else the handle of a tooltip
    element,        \* Marker.element is set
    attached,       \* Marker.viewer and Marker.plugin are set
    projected,      \* viewer.dataHelper.vector3ToViewerCoords(state.positions3D[0])
    created,        \* tooltip service: tooltips created so far
    shown,          \* tooltip service: handles created and not hidden
    initialConfig,  \* the configuration the constructor was given
    before,         \* the marker's type, config, state and tooltip before the last operation
    repeated,       \* the last operation repeats the successful update before it
    lastOp,         \* the last operation called
    lastArg,        \* its configuration argument (construct, update)
    lastOutcome,    \* "ok", or the error it raised
    lastResult,     \* the string it returned (getListContent)
    lastPointer,    \* its pointer arguments (showTooltip)
    lastCall,       \* the tooltip service call it made: create, update, move, hide
    lastTip,        \* the tooltip configuration passed with that call
    lastStages      \* the steps the constructor ran (construct)

vars == <<phase, type, config, state, tooltip, element, attached, projected, created,
          shown, initialConfig, before, repeated, lastOp, lastArg, lastOutcome, lastResult, lastPointer,
          lastCall, lastTip, lastStages>>

markerVars == <<phase, type, config, state, tooltip, element, attached>>
serviceVars == <<created, shown>>

\* the initial value of Marker.state
InitState ==
    [anchor |-> NullPoint, visible |-> FALSE, staticTooltip |-> FALSE,
     position2D |-> NullPoint, size |-> NullSize]

NoPointer == [clientX |-> UndefV, clientY |-> UndefV, forceUpdate |-> FALSE]

\* no tooltip configuration
NoTip ==
    [content |-> Undefined, trigger |-> Undefined, pointerEvents |-> Undefined,
     top |-> UndefV, left |-> UndefV, box |-> NullSize]

Init ==
    /\ phase = "new"
    /\ type = Undefined
    /\ config = NoConfig
    /\ state = InitState
    /\ tooltip = 0
    /\ element = FALSE
    /\ attached = FALSE
    /\ projected = NullPoint
    /\ created = 0
    /\ shown = {}
    /\ initialConfig = NoConfig
    /\ before = [type |-> Undefined, config |-> NoConfig, state |-> InitState, tooltip |-> 0]
    /\ repeated = FALSE
    /\ lastOp = "none"
    /\ lastArg = NoConfig
    /\ lastOutcome = "ok"
    /\ lastResult = Undefined
    /\ lastPointer = NoPointer
    /\ lastCall = "none"
    /\ lastTip = NoTip
    /\ lastStages = <<>>

\* ---------------------------------------------------------------- update

\* update, lines 144-149: a bare string becomes {content}; a tooltip with no
\* trigger gets "hover"
normalizeTooltip(cfg) ==
    LET t1 == IF cfg.tooltip.k = "string"
              THEN TipObject(cfg.tooltip.s, Undefined)
              ELSE cfg.tooltip
        t2 == IF t1.k = "object" /\ ~TruthyStr(t1.trigger)
              THEN [t1 EXCEPT !.trigger = "hover"]
              ELSE t1
    IN  [cfg EXCEPT !.tooltip = t2]

applyDefaultsNoOpacity(cfg) ==
    [cfg EXCEPT !.visible = IF isNil(cfg.visible) THEN Bool(TRUE) ELSE cfg.visible,
                !.zIndex = IF isNil(cfg.zIndex) THEN Num(1) ELSE cfg.zIndex]

\* update, lines 150-158: visible, zIndex and opacity default to true, 1, 1
applyDefaults(cfg) ==
    [cfg EXCEPT !.visible = IF isNil(cfg.visible) THEN Bool(TRUE) ELSE cfg.visible,
                !.zIndex = IF isNil(cfg.zIndex) THEN Num(1) ELSE cfg.zIndex,
                !.opacity = IF isNil(cfg.opacity) THEN Num(1) ELSE cfg.opacity]

\* what normalizeRotation returns when parseAngle throws
RotThrow == [k |-> "throw", v |-> UndefV, yaw |-> UndefV, pitch |-> UndefV, roll |-> UndefV]

\* rot.yaw ? utils.parseAngle(rot.yaw, true, false) : 0
parseComponent(v) == IF Truthy(v) THEN parseAngle(v) ELSE Num(0)

\* truthiness of config.rotation
TruthyRot(rot) == rot.k = "object" \/ (rot.k = "scalar" /\ Truthy(rot.v))

normalizeRotationSwapped(rot) ==
    IF TruthyRot(rot)
    THEN IF rot.k = "object"
         THEN LET y == parseComponent(rot.pitch)
                  p == parseComponent(rot.yaw)
                  r == parseComponent(rot.roll)
              IN  IF Throw \in {y, p, r} THEN RotThrow ELSE RotObject(y, p, r)
         ELSE LET r == parseAngle(rot.v)
              IN  IF r = Throw THEN RotThrow ELSE RotObject(Num(0), Num(0), r)
    ELSE RotObject(Num(0), Num(0), Num(0))

normalizeRotationScalarYaw(rot) ==
    IF TruthyRot(rot)
    THEN IF rot.k = "object"
         THEN LET y == parseComponent(rot.yaw)
                  p == parseComponent(rot.pitch)
                  r == parseComponent(rot.roll)
              IN  IF Throw \in {y, p, r} THEN RotThrow ELSE RotObject(y, p, r)
         ELSE LET r == parseAngle(rot.v)
              IN  IF r = Throw THEN RotThrow ELSE RotObject(r, Num(0), Num(0))
    ELSE RotObject(Num(0), Num(0), Num(0))

\* update, lines 160-177: the rotation as a {yaw, pitch, roll} triple of
\* parsed angles, a scalar being the roll
normalizeRotation(rot) ==
    IF TruthyRot(rot)
    THEN IF rot.k = "object"
         THEN LET y == parseComponent(rot.yaw)
                  p == parseComponent(rot.pitch)
                  r == parseComponent(rot.roll)
              IN  IF Throw \in {y, p, r} THEN RotThrow ELSE RotObject(y, p, r)
         ELSE LET r == parseAngle(rot.v)
              IN  IF r = Throw THEN RotThrow ELSE RotObject(Num(0), Num(0), r)
    ELSE RotObject(Num(0), Num(0), Num(0))

\* update, lines 143-179, once the type is checked: merge, normalise,
\* default, parse; an angle that does not parse throws with the merged and
\* defaulted configuration already stored and the anchor not yet parsed
mergeAndNormalize(cfg, anc, ty, c) ==
    LET d == applyDefaults(normalizeTooltip(deepmerge(cfg, c)))
        r == normalizeRotation(d.rotation)
    IN  IF r = RotThrow
        THEN [outcome |-> "angle_error", config |-> d, anchor |-> anc, type |-> ty]
        ELSE [outcome |-> "ok", config |-> [d EXCEPT !.rotation = r],
              anchor |-> parsePoint(d.anchor), type |-> ty]

updateMergeFirst(cfg, anc, ty, c) ==
    LET newType == getMarkerType(c, TRUE)
        m == mergeAndNormalize(cfg, anc, ty, c)
    IN  IF newType = ThrowType
        THEN [outcome |-> "type_error", config |-> cfg, anchor |-> anc, type |-> ty]
        ELSE IF newType # Undefined /\ newType # ty
             THEN [m EXCEPT !.outcome = "type_changed"]
             ELSE m

updateRetyping(cfg, anc, ty, c) ==
    LET newType == getMarkerType(c, TRUE)
        m == mergeAndNormalize(cfg, anc, ty, c)
    IN  IF newType = ThrowType
        THEN [outcome |-> "type_error", config |-> cfg, anchor |-> anc, type |-> ty]
        ELSE IF newType # Undefined THEN [m EXCEPT !.type = newType] ELSE m

\* Marker.update(config), as a function of the marker's configuration,
\* anchor and type: the outcome and the three afterwards
updateOutcome(cfg, anc, ty, c) ==
    LET newType == getMarkerType(c, TRUE)
    IN  IF newType = ThrowType
        THEN [outcome |-> "type_error", config |-> cfg, anchor |-> anc, type |-> ty]
        ELSE IF newType # Undefined /\ newType # ty
             THEN [outcome |-> "type_changed", config |-> cfg, anchor |-> anc, type |-> ty]
             ELSE mergeAndNormalize(cfg, anc, ty, c)

constructorRunElementFirst(c) ==
    LET ty == getMarkerType(c, FALSE)
        r == updateOutcome(NoConfig, NullPoint, ty, c)
    IN  IF ~TruthyStr(c.id)
        THEN [outcome |-> "missing_id", stages |-> <<"createElement">>, type |-> Undefined,
              element |-> TRUE, config |-> NoConfig, anchor |-> NullPoint]
        ELSE IF ty = ThrowType
        THEN [outcome |-> "type_error", stages |-> <<"createElement", "getMarkerType">>,
              type |-> Undefined, element |-> TRUE, config |-> NoConfig,
              anchor |-> NullPoint]
        ELSE [outcome |-> r.outcome,
              stages |-> <<"createElement", "getMarkerType", "update">>,
              type |-> ty, element |-> TRUE, config |-> r.config, anchor |-> r.anchor]

\* constructor, lines 61-67: the id is checked, the type resolved, the
\* element created and the configuration applied by update; the steps run,
\* the error raised if any, and the fields of the object when it returns or
\* throws
constructorRun(c) ==
    LET ty == getMarkerType(c, FALSE)
        r == updateOutcome(NoConfig, NullPoint, ty, c)
    IN  IF ~TruthyStr(c.id)
        THEN [outcome |-> "missing_id", stages |-> <<>>, type |-> Undefined,
              element |-> FALSE, config |-> NoConfig, anchor |-> NullPoint]
        ELSE IF ty = ThrowType
        THEN [outcome |-> "type_error", stages |-> <<"getMarkerType">>, type |-> Undefined,
              element |-> FALSE, config |-> NoConfig, anchor |-> NullPoint]
        ELSE [outcome |-> r.outcome,
              stages |-> <<"getMarkerType", "createElement", "update">>,
              type |-> ty, element |-> TRUE, config |-> r.config, anchor |-> r.anchor]

\* the record of the operation called: what the marker was before it, its
\* arguments, its outcome and the tooltip service call it made
Record(op, c, outcome, result, pointer, call, tip) ==
    /\ before' = [type |-> type, config |-> config, state |-> state, tooltip |-> tooltip]
    /\ repeated' = (op = "update" /\ lastOp = "update" /\ lastOutcome = "ok" /\ lastArg = c)
    /\ lastOp' = op
    /\ lastArg' = c
    /\ lastOutcome' = outcome
    /\ lastResult' = result
    /\ lastPointer' = pointer
    /\ lastCall' = call
    /\ lastTip' = tip
    /\ lastStages' = IF op = "construct" THEN constructorRun(c).stages ELSE <<>>

\* the record of an operation that takes a configuration
Called(op, c, outcome) == Record(op, c, outcome, Undefined, NoPointer, "none", NoTip)

\* new Marker(viewer, plugin, config): a construction that throws leaves no
\* marker
construct(c) ==
    /\ phase = "new"
    /\ LET r == constructorRun(c)
       IN  /\ Called("construct", c, r.outcome)
           /\ IF r.outcome = "ok"
              THEN /\ phase' = "live"
                   /\ type' = r.type
                   /\ element' = r.element
                   /\ attached' = TRUE
                   /\ config' = r.config
                   /\ state' = [state EXCEPT !.anchor = r.anchor]
                   /\ initialConfig' = c
              ELSE UNCHANGED <<phase, type, element, attached, config, state, initialConfig>>
    /\ UNCHANGED <<tooltip, projected, created, shown>>

\* marker.update(config)
update(c) ==
    /\ phase = "live"
    /\ LET r == updateOutcome(config, state.anchor, type, c)
       IN  /\ Called("update", c, r.outcome)
           /\ config' = r.config
           /\ state' = [state EXCEPT !.anchor = r.anchor]
           /\ type' = r.type
    /\ UNCHANGED <<phase, tooltip, element, attached, projected, created, shown, initialConfig>>

getListContentHtmlFirst(cfg) ==
    IF TruthyStr(cfg.html) THEN cfg.html
    ELSE IF TruthyStr(cfg.listContent) THEN cfg.listContent
    ELSE IF cfg.tooltip.k = "object" /\ TruthyStr(cfg.tooltip.content) THEN cfg.tooltip.content
    ELSE cfg.id

\* Marker.getListContent(): listContent, tooltip.content, html, id
getListContent(cfg) ==
    IF TruthyStr(cfg.listContent) THEN cfg.listContent
    ELSE IF cfg.tooltip.k = "object" /\ TruthyStr(cfg.tooltip.content) THEN cfg.tooltip.content
    ELSE IF TruthyStr(cfg.html) THEN cfg.html
    ELSE cfg.id

\* a call of marker.getListContent()
callGetListContent ==
    /\ phase = "live"
    /\ Record("getListContent", NoConfig, "ok", getListContent(config), NoPointer, "none", NoTip)
    /\ UNCHANGED <<markerVars, projected, serviceVars, initialConfig>>

\* --------------------------------------------------------------- tooltip

\* the capability predicates, as the marker classes override them
isPoly(ty) == ty = "polygon"
is3d(ty) == ty = "imageLayer"
isCss3d(ty) == ty = "elementLayer"

\* utils.getPosition(this.viewer.container): the container's page origin
ContainerPosition == Point(10, 20)

\* a + d for a JavaScript number a: NaN when a is undefined
Plus(a, d) == IF a.k = "number" THEN Num(a.n + d) ELSE NaNV

\* showTooltip, lines 220-232: below the pointer when a pointer coordinate
\* is truthy, else at the cached 2D position
pointerPlacement(st, pointer) ==
    IF Truthy(pointer.clientX) \/ Truthy(pointer.clientY)
    THEN [top |-> Plus(pointer.clientY, 10 - ContainerPosition.y),
          left |-> Plus(pointer.clientX, -ContainerPosition.x),
          box |-> Size(20, 20)]
    ELSE [top |-> Num(st.position2D.y), left |-> Num(st.position2D.x), box |-> NullSize]

anchorPlacementAlwaysScaled(cfg, st, position) ==
    LET scaled == Truthy(cfg.hoverScale)
        width == IF scaled THEN st.size.width * cfg.hoverScale.n ELSE st.size.width
        height == IF scaled THEN st.size.height * cfg.hoverScale.n ELSE st.size.height
    IN  [top |-> Num(position.y - (height * st.anchor.y) \div 2 + height \div 2),
         left |-> Num(position.x - (width * st.anchor.x) \div 2 + width \div 2),
         box |-> Size(width, height)]

anchorPlacementNoCentering(cfg, st, position) ==
    LET scaled == Truthy(cfg.hoverScale) /\ ~st.staticTooltip
        width == IF scaled THEN st.size.width * cfg.hoverScale.n ELSE st.size.width
        height == IF scaled THEN st.size.height * cfg.hoverScale.n ELSE st.size.height
    IN  [top |-> Num(position.y - (height * st.anchor.y) \div 2),
         left |-> Num(position.x - (width * st.anchor.x) \div 2),
         box |-> Size(width, height)]

\* showTooltip, lines 235-247: the projected position moved by
\* -size * anchor + size / 2, the size scaled for a transient tooltip of a
\* marker with a hoverScale (the anchor is in halves)
anchorPlacement(cfg, st, position) ==
    LET scaled == Truthy(cfg.hoverScale) /\ ~st.staticTooltip
        width == IF scaled THEN st.size.width * cfg.hoverScale.n ELSE st.size.width
        height == IF scaled THEN st.size.height * cfg.hoverScale.n ELSE st.size.height
    IN  [top |-> Num(position.y - (height * st.anchor.y) \div 2 + height \div 2),
         left |-> Num(position.x - (width * st.anchor.x) \div 2 + width \div 2),
         box |-> Size(width, height)]

tooltipConfigStyleFirst(cfg, st, ty, position, pointer) ==
    LET place == IF isPoly(ty) \/ is3d(ty) \/ isCss3d(ty)
                 THEN pointerPlacement(st, pointer)
                 ELSE anchorPlacement(cfg, st, position)
        own == IF st.staticTooltip THEN "auto" ELSE "none"
    IN  [content |-> cfg.tooltip.content,
         trigger |-> cfg.tooltip.trigger,
         pointerEvents |-> IF cfg.tooltip.style # Undefined THEN cfg.tooltip.style ELSE own,
         top |-> place.top, left |-> place.left, box |-> place.box]

\* showTooltip, lines 208-248: the configuration passed to the tooltip, the
\* fields of config.tooltip spread first and the style, top, left and box
\* set over them
tooltipConfig(cfg, st, ty, position, pointer) ==
    LET place == IF isPoly(ty) \/ is3d(ty) \/ isCss3d(ty)
                 THEN pointerPlacement(st, pointer)
                 ELSE anchorPlacement(cfg, st, position)
        spread == [content |-> cfg.tooltip.content,
                   trigger |-> cfg.tooltip.trigger,
                   pointerEvents |-> cfg.tooltip.style,
                   top |-> UndefV, left |-> UndefV, box |-> NullSize]
    IN  [spread EXCEPT !.pointerEvents = IF st.staticTooltip THEN "auto" ELSE "none",
                       !.top = place.top, !.left = place.left, !.box = place.box]

showTooltipGuardIgnoresContent(cfg, st) ==
    /\ st.visible
    /\ st.position2D # NullPoint

\* showTooltip, line 207: visible, with a tooltip content and a 2D position
showTooltipGuard(cfg, st) ==
    /\ st.visible
    /\ cfg.tooltip.k = "object" /\ TruthyStr(cfg.tooltip.content)
    /\ st.position2D # NullPoint

tooltipCallForceCreates(handle, forceUpdate) ==
    IF handle # 0 /\ ~forceUpdate THEN "move" ELSE "create"

\* showTooltip, lines 250-258: a held tooltip is updated when forceUpdate
\* and moved otherwise; with no handle a tooltip is created
tooltipCall(handle, forceUpdate) ==
    IF handle # 0
    THEN IF forceUpdate THEN "update" ELSE "move"
    ELSE "create"

\* marker.showTooltip(clientX, clientY, forceUpdate)
showTooltip(pointer) ==
    /\ phase = "live"
    /\ IF showTooltipGuard(config, state)
       THEN LET tip == tooltipConfig(config, state, type, projected, pointer)
                call == tooltipCall(tooltip, pointer.forceUpdate)
            IN  IF call = "create"
                THEN /\ created < MaxCreated
                     /\ Record("showTooltip", NoConfig, "ok", Undefined, pointer, call, tip)
                     /\ tooltip' = created + 1
                     /\ created' = created + 1
                     /\ shown' = shown \cup {created + 1}
                ELSE /\ Record("showTooltip", NoConfig, "ok", Undefined, pointer, call, tip)
                     /\ UNCHANGED <<tooltip, created, shown>>
       ELSE /\ Record("showTooltip", NoConfig, "ok", Undefined, pointer, "none", NoTip)
            /\ UNCHANGED <<tooltip, created, shown>>
    /\ UNCHANGED <<phase, type, config, state, element, attached, projected, initialConfig>>

hideTooltipKeepsHandle(tip, sh) ==
    IF tip # 0
    THEN [call |-> "hide", tooltip |-> tip, shown |-> sh \ {tip}]
    ELSE [call |-> "none", tooltip |-> tip, shown |-> sh]

\* hideTooltip, lines 267-270: a held handle is hidden by the tooltip
\* service and dropped; with no handle nothing is called
hideTooltipEffect(tip, sh) ==
    IF tip # 0
    THEN [call |-> "hide", tooltip |-> 0, shown |-> sh \ {tip}]
    ELSE [call |-> "none", tooltip |-> tip, shown |-> sh]

\* marker.hideTooltip()
hideTooltip ==
    /\ phase = "live"
    /\ LET h == hideTooltipEffect(tooltip, shown)
       IN  /\ Record("hideTooltip", NoConfig, "ok", Undefined, NoPointer, h.call, NoTip)
           /\ tooltip' = h.tooltip
           /\ shown' = h.shown
    /\ UNCHANGED <<phase, type, config, state, element, attached, projected, created,
                   initialConfig>>

\* marker.destroy(): the references are deleted and the tooltip hidden
destroy ==
    /\ phase = "live"
    /\ LET h == hideTooltipEffect(tooltip, shown)
       IN  /\ Record("destroy", NoConfig, "ok", Undefined, NoPointer, h.call, NoTip)
           /\ tooltip' = h.tooltip
           /\ shown' = h.shown
    /\ phase' = "destroyed"
    /\ attached' = FALSE
    /\ element' = FALSE
    /\ UNCHANGED <<type, config, state, projected, created, initialConfig>>

\* what a frame's render leaves in the marker's state: not visible, or
\* visible with a 2D position, the projection of positions3D[0] and a size
RenderOutcomes ==
    {[visible |-> FALSE, position2D |-> NullPoint, projected |-> NullPoint, size |-> NullSize],
     [visible |-> TRUE, position2D |-> Point(84, 68), projected |-> Point(100, 100),
      size |-> Size(32, 32)],
     [visible |-> TRUE, position2D |-> Point(40, 60), projected |-> Point(40, 60),
      size |-> Size(20, 40)]}

\* marker.render(...), called by the plugin each frame, and the plugin's
\* store of what it returns
render(o) ==
    /\ phase = "live"
    /\ Record("render", NoConfig, "ok", Undefined, NoPointer, "none", NoTip)
    /\ IF o.visible
       THEN /\ state' = [state EXCEPT !.visible = TRUE, !.position2D = o.position2D,
                                      !.size = o.size]
            /\ projected' = o.projected
       ELSE /\ state' = [state EXCEPT !.visible = FALSE, !.position2D = NullPoint]
            /\ UNCHANGED projected
    /\ UNCHANGED <<phase, type, config, tooltip, element, attached, created, shown,
                   initialConfig>>

\* the plugin pins or unpins the marker's tooltip
setStaticTooltip(b) ==
    /\ phase = "live"
    /\ state.staticTooltip # b
    /\ Record("setStaticTooltip", NoConfig, "ok", Undefined, NoPointer, "none", NoTip)
    /\ state' = [state EXCEPT !.staticTooltip = b]
    /\ UNCHANGED <<phase, type, config, tooltip, element, attached, projected, created, shown,
                   initialConfig>>

\* ---------------------------------------------------------------- inputs

\* the value the model gives a type's defining field
Definition(t) ==
    CASE t = "image" -> "pin.png"
      [] t = "html" -> "<b>pin</b>"
      [] t = "polygon" -> "points"
      [] t = "imageLayer" -> "layer.png"
      [] OTHER -> "element"

Base == [NoConfig EXCEPT !.id = "m1"]

WithType(c, t) == [c EXCEPT ![t] = Definition(t)]

\* partial configurations that touch one aspect of the marker
TooltipEdits ==
    {[Base EXCEPT !.tooltip = t] :
        t \in {TipString("tip"), TipString("new"), TipString(""),
               TipObject("tip", Undefined), TipObject(Undefined, "click")}}

DefaultEdits ==
    {[Base EXCEPT !.visible = Bool(FALSE), !.zIndex = Num(2), !.opacity = Num(0)],
     [Base EXCEPT !.visible = NullV, !.zIndex = NullV, !.opacity = NullV],
     [Base EXCEPT !.visible = Bool(FALSE)]}

RotationEdits ==
    {[Base EXCEPT !.rotation = r] :
        r \in {RotScalar(Num(1)), RotScalar(DegStr(180)), RotScalar(Num(0)),
               RotScalar(BadStr),
               RotObject(Num(Pi + 1), UndefV, UndefV), RotObject(UndefV, Num(1), UndefV),
               RotObject(BadStr, UndefV, UndefV)}}

OtherEdits ==
    {[Base EXCEPT !.anchor = "bottom center"],
     [Base EXCEPT !.listContent = "list"]}

Edits == TooltipEdits \cup DefaultEdits \cup RotationEdits \cup OtherEdits

\* a defining field alone or none, two defining fields, no id
TypeInputs ==
    {Base}
    \cup {WithType(Base, t) : t \in {"image", "html", "polygon"}}
    \cup {WithType(WithType(Base, "image"), "polygon"), WithType(NoConfig, "image")}

\* configurations of the configuration lifecycle
ConfigInputs ==
    TypeInputs \cup TooltipEdits \cup DefaultEdits \cup OtherEdits
    \cup {[Base EXCEPT !.rotation = RotScalar(Num(1))],
          WithType([Base EXCEPT !.tooltip = TipString("new")], "polygon"),
          WithType([Base EXCEPT !.listContent = "list"], "html")}

\* configurations of the rotation lifecycle
RotationInputs ==
    {Base, WithType(Base, "image"), WithType(Base, "polygon")}
    \cup RotationEdits
    \cup {[Base EXCEPT !.anchor = "bottom center"],
          [Base EXCEPT !.tooltip = TipString("tip")],
          [Base EXCEPT !.tooltip = TipObject(Undefined, "click")],
          WithType(WithType(Base, "image"), "polygon"),
          WithType([Base EXCEPT !.rotation = RotObject(Num(1), UndefV, UndefV)], "image"),
          WithType([Base EXCEPT !.rotation = RotScalar(Num(Pi + 1))], "image"),
          WithType([Base EXCEPT !.rotation = RotScalar(BadStr)], "image"),
          WithType([Base EXCEPT !.rotation = RotScalar(Num(1))], "polygon"),
          NoConfig, WithType(NoConfig, "image")}

\* a marker is not constructed from a polygon in these lifecycles
Constructible(c) == c.polygon = Undefined \/ c.image # Undefined

NextConfig ==
    \/ \E c \in {i \in ConfigInputs : Constructible(i)} : construct(c)
    \/ \E c \in ConfigInputs : update(c)
    \/ callGetListContent

\* the configuration lifecycle: construction, updates of the tooltip, the
\* defaults, the anchor and the list content, and the list content read
SpecConfig == Init /\ [][NextConfig]_vars

NextRotation ==
    \/ \E c \in {i \in RotationInputs : Constructible(i)} : construct(c)
    \/ \E c \in RotationInputs : update(c)

\* the rotation lifecycle: construction and updates of the rotation
SpecRotation == Init /\ [][NextRotation]_vars

\* configurations of the tooltip lifecycle
TooltipInputs ==
    {WithType(Base, t) : t \in {"image", "polygon", "imageLayer", "elementLayer"}}
    \cup {WithType([Base EXCEPT !.tooltip = TipString("tip")], t) :
            t \in {"image", "polygon"}}
    \cup {[Base EXCEPT !.tooltip = TipString("tip")],
          [Base EXCEPT !.tooltip = TipObject("", "click")],
          [Base EXCEPT !.anchor = "bottom center"],
          [Base EXCEPT !.hoverScale = HoverScale(2)]}

\* the pointer arguments of showTooltip: none, the page origin, a point, and
\* points on the page's left and top edges
Pointers ==
    {[clientX |-> xy[1], clientY |-> xy[2], forceUpdate |-> f] :
        xy \in {<<UndefV, UndefV>>, <<Num(0), Num(0)>>, <<Num(15), Num(25)>>,
                <<Num(0), Num(25)>>, <<Num(15), Num(0)>>},
        f \in BOOLEAN}

Next ==
    \/ \E c \in TooltipInputs : construct(c)
    \/ \E c \in TooltipInputs : update(c)
    \/ \E o \in RenderOutcomes : render(o)
    \/ \E b \in BOOLEAN : setStaticTooltip(b)
    \/ \E p \in Pointers : showTooltip(p)
    \/ hideTooltip
    \/ destroy

\* the tooltip lifecycle: construction, updates of the tooltip, the anchor
\* and the hoverScale, frames, and the tooltip shown, hidden and destroyed
Spec == Init /\ [][Next]_vars

\* configurations of the tooltip style lifecycle: markers of both
\* placements with a tooltip, a tooltip text, and tooltip objects that carry
\* a style
StyleInputs ==
    {WithType([Base EXCEPT !.tooltip = TipString("tip")], t) : t \in {"image", "polygon"}}
    \cup {[Base EXCEPT !.tooltip = TipString("new")],
          [Base EXCEPT !.tooltip = TipStyled(Undefined, Undefined, "auto")],
          [Base EXCEPT !.tooltip = TipStyled("styled", "click", "none")]}

NextStyle ==
    \/ \E c \in StyleInputs : construct(c)
    \/ \E c \in StyleInputs : update(c)
    \/ \E o \in RenderOutcomes : render(o)
    \/ \E b \in BOOLEAN : setStaticTooltip(b)
    \/ \E p \in Pointers : showTooltip(p)
    \/ hideTooltip

\* the tooltip style lifecycle: construction, updates of the tooltip and its
\* style, frames, the tooltip pinned and unpinned, shown and hidden
SpecStyle == Init /\ [][NextStyle]_vars

\* ---------------------------------------------------------------- claims

\* the last operation was a call of update, or the constructor's
Updated == lastOp \in {"construct", "update"}

\* the last operation was a call of update (or the constructor's) that
\* returned
UpdatedOk == Updated /\ lastOutcome = "ok"

\* a rotation with yaw, pitch and roll all numbers
IsParsedRotation(r) ==
    r.k = "object" /\ r.yaw.k = "number" /\ r.pitch.k = "number" /\ r.roll.k = "number"

\* a rotation object that supplies yaw alone
YawOnly(r) ==
    r.k = "object" /\ r.yaw.k # "undefined" /\ r.pitch.k = "undefined"
    /\ r.roll.k = "undefined"

\* C1: an update whose configuration resolves to a defined type other than
\* the marker's raises an error and leaves the parsed configuration (every
\* field), state.anchor and the tooltip handle as they were before the call.
C1_TypeChangeLeavesMarkerUntouched ==
    (lastOp = "update" /\ getMarkerType(lastArg, TRUE) \notin {Undefined, ThrowType, before.type})
        => /\ lastOutcome = "type_changed"
           /\ config = before.config
           /\ state = before.state
           /\ tooltip = before.tooltip

\* C1 witness: an update that carried a polygon and a new tooltip text was
\* rejected on a marker that holds a tooltip, a non-default opacity and an
\* anchor.
C1_Witness ==
    /\ lastOp = "update"
    /\ lastOutcome = "type_changed"
    /\ lastArg.tooltip = TipString("new")
    /\ config.tooltip = TipObject("tip", "click")
    /\ config.opacity = Num(0)
    /\ state.anchor = Point(1, 2)

\* C2: the type is the one the constructor resolved from the initial
\* configuration, after any sequence of updates, successful or failing; and
\* an update whose configuration has no defining field is not rejected by
\* the type check (it is merged; only an angle that does not parse can still
\* fail it).
C2_TypeFixedByConstructor ==
    /\ phase = "live" => type = getMarkerType(initialConfig, FALSE)
    /\ (lastOp = "update" /\ getMarkerType(lastArg, TRUE) = Undefined)
        => /\ lastOutcome \in {"ok", "angle_error"}
           /\ config = mergeAndNormalize(before.config, before.state.anchor, type, lastArg).config

\* C2 witness: a partial edit with no defining field was accepted and changed
\* the rotation of a marker whose type is still the constructor's.
C2_Witness ==
    /\ phase = "live"
    /\ lastOp = "update"
    /\ lastOutcome = "ok"
    /\ getMarkerType(lastArg, TRUE) = Undefined
    /\ lastArg.rotation.k = "scalar"
    /\ config.rotation # before.config.rotation
    /\ type = "image"

\* every configuration the model passes to update
AllInputs == ConfigInputs \cup RotationInputs \cup TooltipInputs

\* C3: in every reachable state, for every configuration c that update
\* accepts, a second update(c) right after the first leaves the parsed
\* configuration and state.anchor as the first left them.
C3_UpdateIdempotent ==
    phase = "live" =>
        \A c \in AllInputs :
            LET r1 == updateOutcome(config, state.anchor, type, c)
                r2 == updateOutcome(r1.config, r1.anchor, r1.type, c)
            IN  r1.outcome = "ok"
                    => r2.outcome = "ok" /\ r2.config = r1.config /\ r2.anchor = r1.anchor

\* C3 witness: update was called twice in a row with a configuration that
\* supplies a yaw alone, on a marker with a pitch, and the second call
\* changed nothing.
C3_Witness ==
    /\ repeated
    /\ lastOutcome = "ok"
    /\ YawOnly(lastArg.rotation)
    /\ config.rotation.pitch # Num(0)
    /\ config = before.config
    /\ state = before.state

\* C4: after every successful update visible, zIndex and opacity are not
\* nil, and are true, 1 and 1 when the merged configuration holds no (or a
\* nil) value for them; a tooltip, when present, is an object with a
\* non-empty trigger, which is "hover" when the merged tooltip has none.
C4_DefaultInjection ==
    UpdatedOk =>
        LET m == deepmerge(before.config, lastArg)
        IN  /\ ~isNil(config.visible) /\ ~isNil(config.zIndex) /\ ~isNil(config.opacity)
            /\ isNil(m.visible) => config.visible = Bool(TRUE)
            /\ isNil(m.zIndex) => config.zIndex = Num(1)
            /\ isNil(m.opacity) => config.opacity = Num(1)
            /\ ~isNil(m.visible) => config.visible = m.visible
            /\ ~isNil(m.zIndex) => config.zIndex = m.zIndex
            /\ ~isNil(m.opacity) => config.opacity = m.opacity
            /\ config.tooltip.k \in {"undefined", "object"}
            /\ m.tooltip.k # "undefined" => config.tooltip.k = "object"
            /\ config.tooltip.k = "object" => TruthyStr(config.tooltip.trigger)
            /\ (m.tooltip.k = "string" \/ (m.tooltip.k = "object" /\ ~TruthyStr(m.tooltip.trigger)))
                    => config.tooltip.trigger = "hover"

\* C4 witness: an update that set visible, zIndex and opacity to null put
\* the defaults back on a marker whose bare-string tooltip had become an
\* object with the "hover" trigger.
C4_Witness ==
    /\ lastOp = "update"
    /\ lastOutcome = "ok"
    /\ lastArg.opacity = NullV
    /\ before.config.opacity = Num(0)
    /\ config.visible = Bool(TRUE) /\ config.zIndex = Num(1) /\ config.opacity = Num(1)
    /\ config.tooltip = TipObject("new", "hover")

\* C5: once the marker is constructed, config.rotation is an object with
\* yaw, pitch and roll all numbers: no reachable state has a missing, scalar
\* or partly populated rotation.
C5_RotationAlwaysPopulated ==
    phase = "live" => IsParsedRotation(config.rotation)

\* C6 as claimed: after update with a rotation object that supplies yaw = a
\* alone, the parsed rotation is {yaw: parse(a), pitch: 0, roll: 0},
\* whatever rotation the marker held before.
C6_YawAloneZeroesPitchAndRoll ==
    (UpdatedOk /\ YawOnly(lastArg.rotation))
        => config.rotation = RotObject(parseAngle(lastArg.rotation.yaw), Num(0), Num(0))

\* C6 amended: after a successful update with a rotation object that
\* supplies yaw = a alone, yaw is parse(a) and pitch and roll are those of
\* the rotation object the marker held before the call, parsed again; they
\* are 0 when the marker held no rotation (as at construction).
C6_YawAloneKeepsPitchAndRoll ==
    (UpdatedOk /\ YawOnly(lastArg.rotation)
        /\ before.config.rotation.k \in {"undefined", "object"})
        => LET prev == before.config.rotation
           IN  config.rotation =
                   RotObject(parseAngle(lastArg.rotation.yaw),
                             IF prev.k = "object" THEN parseComponent(prev.pitch) ELSE Num(0),
                             IF prev.k = "object" THEN parseComponent(prev.roll) ELSE Num(0))

\* C6 witness: an update with a yaw alone on a marker that held a pitch and
\* a roll kept both.
C6_Witness ==
    /\ lastOp = "update"
    /\ lastOutcome = "ok"
    /\ lastArg.rotation = RotObject(Num(Pi + 1), UndefV, UndefV)
    /\ before.config.rotation.pitch = Num(1)
    /\ config.rotation.yaw = Num(1 - Pi)
    /\ config.rotation.pitch = Num(1)

\* C7: after a successful update with a scalar rotation r that parses, the
\* parsed rotation is {yaw: 0, pitch: 0, roll: parse(r)} whatever the marker
\* held before; a later update that does not mention rotation keeps the
\* parsed rotation.
C7_ScalarRotationIsRoll ==
    /\ (UpdatedOk /\ lastArg.rotation.k = "scalar" /\ parseAngle(lastArg.rotation.v) # Throw)
        => config.rotation = RotObject(Num(0), Num(0), parseAngle(lastArg.rotation.v))
    /\ (UpdatedOk /\ lastOp = "update" /\ lastArg.rotation.k = "undefined"
            /\ IsParsedRotation(before.config.rotation))
        => config.rotation = before.config.rotation

\* C7 witness: a scalar "180deg" replaced a rotation with a yaw and a pitch
\* by a roll of -PI alone.
C7_Witness ==
    /\ lastOp = "update"
    /\ lastOutcome = "ok"
    /\ lastArg.rotation = RotScalar(DegStr(180))
    /\ before.config.rotation.yaw # Num(0)
    /\ before.config.rotation.pitch # Num(0)
    /\ config.rotation = RotObject(Num(0), Num(0), Num(-Pi))

\* getListContent returned and changed nothing of the marker
ListContentReturned ==
    /\ lastOp = "getListContent"
    /\ config = before.config /\ state = before.state /\ tooltip = before.tooltip
    /\ type = before.type

\* tooltip.content of a configuration is set
HasTooltipContent(cfg) == cfg.tooltip.k = "object" /\ TruthyStr(cfg.tooltip.content)

\* C10 as claimed: getListContent returns listContent when set, else
\* tooltip.content when set, and the id when neither is set; it changes no
\* marker state.
C10_ListContentFallsBackToId ==
    lastOp = "getListContent" =>
        /\ ListContentReturned
        /\ TruthyStr(config.listContent) => lastResult = config.listContent
        /\ (~TruthyStr(config.listContent) /\ HasTooltipContent(config))
                => lastResult = config.tooltip.content
        /\ (~TruthyStr(config.listContent) /\ ~HasTooltipContent(config))
                => lastResult = config.id

\* C10 amended: getListContent returns the first non-empty of listContent,
\* tooltip.content, html, id: the id only when none of listContent,
\* tooltip.content and html is set; it changes no marker state.
C10_ListContentPriority ==
    lastOp = "getListContent" =>
        /\ ListContentReturned
        /\ TruthyStr(config.listContent) => lastResult = config.listContent
        /\ (~TruthyStr(config.listContent) /\ HasTooltipContent(config))
                => lastResult = config.tooltip.content
        /\ (~TruthyStr(config.listContent) /\ ~HasTooltipContent(config)
                /\ TruthyStr(config.html))
                => lastResult = config.html
        /\ (~TruthyStr(config.listContent) /\ ~HasTooltipContent(config)
                /\ ~TruthyStr(config.html))
                => lastResult = config.id

\* C10 witness: with listContent and tooltip.content both set, getListContent
\* returned listContent on an html marker.
C10_Witness ==
    /\ lastOp = "getListContent"
    /\ config.listContent = "list"
    /\ HasTooltipContent(config)
    /\ type = "html"
    /\ lastResult = "list"

\* showTooltip passed its guard and called the tooltip service
TooltipPlaced == lastOp = "showTooltip" /\ lastCall \in {"create", "update", "move"}

\* the marker of the anchor-relative example: flat, anchor {x: 0.5, y: 1},
\* size 32 x 32, no hoverScale, projected at {x: 100, y: 100}
AnchorExample ==
    /\ TooltipPlaced
    /\ ~(isPoly(type) \/ is3d(type) \/ isCss3d(type))
    /\ state.anchor = Point(1, 2)
    /\ state.size = Size(32, 32)
    /\ config.hoverScale = UndefV
    /\ projected = Point(100, 100)

\* C8 as claimed: in the anchor-relative example showTooltip passes the
\* tooltip origin {top: 84, left: 84}.
C8_AnchorExampleOrigin84_84 ==
    AnchorExample => lastTip.top = Num(84) /\ lastTip.left = Num(84)

\* C8 amended: in the anchor-relative example showTooltip passes the tooltip
\* origin {top: 84, left: 100} (100 - 32 * 1 + 16 and 100 - 32 * 0.5 + 16)
\* and the box 32 x 32.
C8_AnchorExampleOrigin84_100 ==
    AnchorExample
        => lastTip.top = Num(84) /\ lastTip.left = Num(100) /\ lastTip.box = Size(32, 32)

\* C8 witness: showTooltip created the tooltip of the marker of the example.
C8_Witness ==
    /\ AnchorExample
    /\ lastCall = "create"
    /\ tooltip # 0
    /\ lastTip.top = Num(84)

\* C9: for a poly, 3D or CSS3D marker that passes the guard, every pair of
\* supplied pointer coordinates, 0 included, gives top = clientY -
\* containerY + 10, left = clientX - containerX and a 20 x 20 box; with no
\* pointer coordinates the cached position2D is used, with no box.
C9_PointerRelativePlacement ==
    (TooltipPlaced /\ (isPoly(type) \/ is3d(type) \/ isCss3d(type)))
        => /\ (lastPointer.clientX.k = "number" /\ lastPointer.clientY.k = "number")
                => /\ lastTip.top = Num(lastPointer.clientY.n - ContainerPosition.y + 10)
                   /\ lastTip.left = Num(lastPointer.clientX.n - ContainerPosition.x)
                   /\ lastTip.box = Size(20, 20)
           /\ (lastPointer.clientX.k = "undefined" /\ lastPointer.clientY.k = "undefined")
                => /\ lastTip.top = Num(state.position2D.y)
                   /\ lastTip.left = Num(state.position2D.x)
                   /\ lastTip.box = NullSize

\* C11: after hideTooltip or destroy the marker holds no tooltip handle and
\* the handle it held was hidden by the tooltip service; a hideTooltip with
\* no handle calls hide zero times and changes nothing; destroy also
\* releases the viewer, the plugin and the element
C11_NoDanglingTooltip ==
    /\ lastOp \in {"hideTooltip", "destroy"} =>
          /\ tooltip = 0
          /\ shown = {}
          /\ before.tooltip # 0 => lastCall = "hide" /\ before.tooltip \notin shown
          /\ before.tooltip = 0 => lastCall = "none"
          /\ type = before.type /\ config = before.config /\ state = before.state
    /\ lastOp = "destroy" => ~attached /\ ~element
    /\ phase = "destroyed" => tooltip = 0 /\ ~attached /\ ~element

\* a tooltip was shown and hidden, and hideTooltip was called once more
C11_Witness ==
    /\ lastOp = "hideTooltip" /\ before.tooltip = 0 /\ lastCall = "none"
    /\ created > 0 /\ tooltip = 0

\* C12: showTooltip does nothing unless the marker is visible, has a
\* tooltip content and has a 2D position: when one of the three fails no
\* tooltip is created, moved or updated, and the handle, the configuration
\* and the render state are what they were (a displayed tooltip stays
\* displayed)
C12_ShowTooltipGuard ==
    lastOp = "showTooltip" =>
        IF \/ ~before.state.visible
           \/ ~HasTooltipContent(before.config)
           \/ before.state.position2D = NullPoint
        THEN /\ lastCall = "none"
             /\ tooltip = before.tooltip
             /\ tooltip # 0 => tooltip \in shown
             /\ config = before.config /\ state = before.state /\ type = before.type
        ELSE lastCall \in {"create", "move", "update"}

\* showTooltip was called on a marker that displays a tooltip and is no
\* longer visible
C12_Witness ==
    /\ lastOp = "showTooltip" /\ lastCall = "none"
    /\ tooltip # 0 /\ ~state.visible /\ HasTooltipContent(config)

\* C13: the constructor checks the id, then resolves the type, then creates
\* the element, then applies the configuration: without an id it raises
\* before the type is resolved, the element created or an update applied;
\* with no type or several it raises before the element is created or an
\* update applied; a construction that raises yields no marker, so no
\* parsed configuration and no element
C13_ConstructionOrder ==
    lastOp = "construct" =>
        /\ ~TruthyStr(lastArg.id) => lastOutcome = "missing_id" /\ lastStages = <<>>
        /\ TruthyStr(lastArg.id) /\ getMarkerType(lastArg, FALSE) = ThrowType =>
              lastOutcome = "type_error" /\ lastStages = <<"getMarkerType">>
        /\ lastOutcome \notin {"missing_id", "type_error"} =>
              lastStages = <<"getMarkerType", "createElement", "update">>
        /\ lastOutcome # "ok" =>
              /\ phase = "new" /\ ~element /\ ~attached
              /\ type = Undefined /\ config = NoConfig /\ state = InitState

\* a construction without an id and without a type raised the missing id
\* error
C13_Witness ==
    /\ lastOp = "construct" /\ lastArg = NoConfig
    /\ lastOutcome = "missing_id" /\ phase = "new"

\* C14: in both placements the tooltip configuration showTooltip builds has
\* style.pointerEvents 'auto' for a pinned tooltip (state.staticTooltip)
\* and 'none' for a transient one, whatever style config.tooltip carries
C14_PointerEventsFollowStatic ==
    lastOp = "showTooltip" /\ lastCall # "none" =>
        lastTip.pointerEvents = IF before.state.staticTooltip THEN "auto" ELSE "none"

\* a transient tooltip was shown for a marker whose config.tooltip carries
\* a style with pointerEvents 'auto'
C14_Witness ==
    /\ lastOp = "showTooltip" /\ lastCall # "none"
    /\ config.tooltip.style = "auto" /\ ~state.staticTooltip
    /\ lastTip.pointerEvents = "none" /\ lastTip.content = "tip"

\* the last operation placed a tooltip by the anchor
AnchorPlaced == TooltipPlaced /\ ~(isPoly(type) \/ is3d(type) \/ isCss3d(type))

\* C15: in the anchor placement the box passed to the tooltip, and the size
\* its origin is computed from, are the resolved size times
\* hoverScale.amount exactly when a hoverScale is configured and the tooltip
\* is transient, and the resolved size otherwise; showTooltip leaves
\* state.size as it was
C15_HoverScaleOnlyWhenTransient ==
    /\ lastOp = "showTooltip" => state.size = before.state.size
    /\ AnchorPlaced =>
          LET amount == IF Truthy(config.hoverScale) /\ ~state.staticTooltip
                        THEN config.hoverScale.n
                        ELSE 1
              w == before.state.size.width * amount
              h == before.state.size.height * amount
          IN  /\ lastTip.box = Size(w, h)
              /\ lastTip.top = Num(projected.y - (h * state.anchor.y) \div 2 + h \div 2)
              /\ lastTip.left = Num(projected.x - (w * state.anchor.x) \div 2 + w \div 2)

\* a transient tooltip of a 32 x 32 marker with hoverScale {amount: 2} was
\* placed with a 64 x 64 box
C15_Witness ==
    /\ AnchorPlaced
    /\ config.hoverScale = HoverScale(2) /\ ~state.staticTooltip
    /\ state.size = Size(32, 32)
    /\ lastTip.box = Size(64, 64)

\* C16: a showTooltip that passes its guard creates a tooltip only when the
\* marker holds no handle, whatever forceUpdate is, updates the held
\* tooltip when forceUpdate and moves it otherwise; so the marker has at
\* most one tooltip created and not hidden, which is the one it holds, and
\* every tooltip created earlier has been hidden
C16_TooltipHandleStateMachine ==
    /\ TooltipPlaced =>
          /\ before.tooltip = 0 =>
                lastCall = "create" /\ tooltip = created /\ tooltip # 0
          /\ before.tooltip # 0 /\ lastPointer.forceUpdate =>
                lastCall = "update" /\ tooltip = before.tooltip
          /\ before.tooltip # 0 /\ ~lastPointer.forceUpdate =>
                lastCall = "move" /\ tooltip = before.tooltip
    /\ Cardinality(shown) <= 1
    /\ shown = IF tooltip = 0 THEN {} ELSE {tooltip}
    /\ tooltip # 0 => tooltip = created

\* a second tooltip was created, with forceUpdate, after the first was
\* hidden
C16_Witness ==
    /\ lastOp = "showTooltip" /\ lastCall = "create" /\ lastPointer.forceUpdate
    /\ created = 2 /\ tooltip = 2 /\ shown = {2}

\* C17 as claimed: an update that raises, for whatever reason, leaves the
\* parsed configuration and state.anchor as they were before the call
C17_UpdateAtomicForEveryError ==
    lastOp = "update" /\ lastOutcome # "ok" =>
        config = before.config /\ state.anchor = before.state.anchor

\* the configuration fields that hold a string, and those that hold a value
StringFields ==
    {"id", "image", "html", "polygon", "imageLayer", "elementLayer", "anchor", "listContent"}
ValueFields == {"visible", "zIndex", "opacity", "hoverScale"}

\* C18 as claimed: after a successful update every field the argument does
\* not mention keeps its value, and so does a field of the stored tooltip
\* that the argument's tooltip, an object with the other field or a new
\* text, does not supply
C18_UpdateIsPartialMerge ==
    lastOp = "update" /\ lastOutcome = "ok" =>
        /\ \A f \in StringFields :
              lastArg[f] = Undefined => config[f] = before.config[f]
        /\ \A f \in ValueFields :
              lastArg[f].k = "undefined" => config[f] = before.config[f]
        /\ lastArg.tooltip.k = "undefined" => config.tooltip = before.config.tooltip
        /\ lastArg.tooltip.k # "undefined" /\ before.config.tooltip.k = "object" =>
              /\ lastArg.tooltip.trigger = Undefined =>
                    config.tooltip.trigger = before.config.tooltip.trigger
              /\ lastArg.tooltip.k = "object" /\ lastArg.tooltip.content = Undefined =>
                    config.tooltip.content = before.config.tooltip.content

====
